---- MODULE Spec2Model ----
(***************************************************************************)
(* The user provisioning saga of ekrsw/rabbitmq: auth-service (identity   *)
(* records), user-service (canonical users), the two broker queues that   *)
(* join them, the processed_messages ledgers and the RabbitMQ client.     *)
(*                                                                         *)
(* Spec       : the saga (HTTP create_user, both message handlers, the    *)
(*              broker's at-least-once redelivery).                       *)
(* SpecClient : RabbitMQClient.connect with its retry loop and the        *)
(*              startup hook that calls it.                               *)
(***************************************************************************)
EXTENDS Naturals, Sequences, FiniteSets, TLC

VARIABLES
    users,          \* user-service: committed rows of table users
    userProcessed,  \* user-service: committed rows of processed_messages
    authUsers,      \* auth-service: committed rows of table auth_users
    authProcessed,  \* auth-service: committed rows of processed_messages
    createQueue,    \* broker queue user.create
    createdQueue,   \* broker queue user.created
    userTask,       \* running handle_user_create_message invocations
    authTask,       \* running handle_user_created_message invocations
    http,           \* auth-service POST /create_user requests
    deliveryCount,  \* per request message: how often it reached the handler
    delivered,      \* broker: messages handed to a consumer at least once
    redeliveries,   \* broker: number of redeliveries so far
    history,        \* observation: the completions published, the users
                    \* created per request, the requests whose deliveries
                    \* overlapped or raced, the direct creates so far
    client,         \* RabbitMQClient fields of auth-service
    conn,           \* the running connect() call, if any
    app,            \* auth-service process: startup hook and serving state
    brokerUp,       \* whether the broker accepts a connection right now
    faults,         \* environment: the failures injected so far
    broker          \* broker: how the deliveries were settled, the
                    \* exceptions that left a handler, the dead-letter queue

sagaVars == <<users, userProcessed, authUsers, authProcessed, createQueue,
              createdQueue, userTask, authTask, http, deliveryCount, delivered,
              redeliveries, history>>
clientVars == <<client, conn, app, brokerUp>>
faultVars == <<faults, broker>>
vars == <<sagaVars, clientVars, faultVars>>

----------------------------------------------------------------------------
(* Bounds of the model *)

\* number of POST /create_user requests to auth-service
MaxHttp == 2
\* number of POST /create_user requests made directly to user-service
MaxDirect == 1
\* number of times the broker redelivers a message it delivered before
MaxRedeliver == 2
\* handler invocations that can be in progress at once, per service
NumTasks == 2
\* the start_consuming calls made on one client
MaxStarts == 3
\* the largest value RABBITMQ_RETRY_COUNT is configured with
MaxRetryCount == 6

Usernames == {"alice"}
Tasks == 1..NumTasks
Requests == 1..MaxHttp
RetryCounts == 1..MaxRetryCount

----------------------------------------------------------------------------
(* Values *)

NULL == "null"

USER_CREATE_QUEUE == "user.create"
USER_CREATED_QUEUE == "user.created"

\* UserCreationStatus
SUCCESS == "success"
DUPLICATE_USERNAME == "duplicate_username"
DUPLICATE_EMAIL == "duplicate_email"
DATABASE_ERROR == "database_error"
VALIDATION_ERROR == "validation_error"
UNKNOWN_ERROR == "unknown_error"

\* uuid.uuid4(): a value no other draw gives; `seed` names the draw (the
\* n-th request, the k-th delivery of a request, the row made for it)
uuid4(kind, seed) == kind \o seed

\* dict.get(key): None for a missing key
Get(d, k) == IF k \in DOMAIN d THEN d[k] ELSE NULL

\* UserCreateRequest(username=...): message_id by default_factory
UserCreateRequest(message_id, username) ==
    [message_id |-> message_id, username |-> username]

\* UserCreatedResponse(request_id, status, username): message_id by
\* default_factory, user_id and error_message default to None
UserCreatedResponse(message_id, request_id, status, username) ==
    [message_id |-> message_id, request_id |-> request_id, status |-> status,
     error_message |-> NULL, user_id |-> NULL, username |-> username]

NoRequest == UserCreateRequest(NULL, NULL)
NoResponse == UserCreatedResponse(NULL, NULL, NULL, NULL)

----------------------------------------------------------------------------
(* Storage: text of the exceptions the storage layer raises (str(e)) *)

ErrUniqueUsername == "UNIQUE constraint failed: users.username"
ErrUniqueMessageId == "UNIQUE constraint failed: processed_messages.message_id"
ErrUniqueUserId == "UNIQUE constraint failed: auth_users.user_id"
\* str(e) of a failure of the storage itself
ErrStorage == "(sqlite3.OperationalError) database is locked"

\* `phrase in str(e).lower()` for the texts above
Contains(phrase, text) ==
    <<phrase, text>> \in {<<"database", ErrStorage>>}


\* the status a handler gives str(e): the first category whose phrase the
\* lower-cased text contains, else unknown_error
ClassifyError(e) ==
    IF Contains("duplicate username", e) THEN DUPLICATE_USERNAME
    ELSE IF Contains("duplicate email", e) THEN DUPLICATE_EMAIL
    ELSE IF Contains("database", e) THEN DATABASE_ERROR
    ELSE IF Contains("validation", e) THEN VALIDATION_ERROR
    ELSE UNKNOWN_ERROR

----------------------------------------------------------------------------
(* Storage: rows, unique constraints, sessions *)

\* a row of processed_messages added to `table`; id is the primary key the
\* Base class draws with uuid4 (the table only grows, so its size names the
\* draw)
ProcessedMessage(table, message_id, source_queue, status, result_data) ==
    [id |-> uuid4("P", ToString(Cardinality(table) + 1)),
     message_id |-> message_id, source_queue |-> source_queue,
     status |-> status, result_data |-> result_data]

\* the rows select(ProcessedMessage).where(message_id, source_queue) returns;
\* .first() is any one of them, None when there is none
check_message_processed(table, message_id, source_queue) ==
    {pm \in table : pm.message_id = message_id /\ pm.source_queue = source_queue}

\* user-service, users.username: two rows conflict
UsersConflict(a, b) == a.username = b.username

\* a processed_messages table without its uniqueness constraint
UserLedgerConflict_Unconstrained(a, b) == FALSE

\* user-service, processed_messages: two rows conflict
UserLedgerConflict(a, b) ==
    a.message_id = b.message_id /\ a.source_queue = b.source_queue

\* message_id declared without unique=True
AuthLedgerConflict_NotUnique(a, b) == FALSE

\* auth-service, processed_messages.message_id unique=True: two rows conflict
AuthLedgerConflict(a, b) == a.message_id = b.message_id

\* auth-service, auth_users.username unique=True
AuthUsernameConflict(a, b) == a.username = b.username

\* auth-service, auth_users.user_id unique=True (NULLs never conflict)
AuthUserIdConflict(a, b) ==
    a.username # b.username /\ a.user_id # NULL /\ a.user_id = b.user_id

IdleUserTask ==
    [pc |-> "idle", request |-> NoRequest, response |-> NoResponse,
     e |-> NULL, rejected |-> FALSE]

IdleAuthTask ==
    [pc |-> "idle", response |-> NoResponse, e |-> NULL, dup |-> FALSE]

\* the slots of running handlers are interchangeable: a delivery takes the
\* lowest free one
LowestIdle(tasks, t) ==
    /\ tasks[t].pc = "idle"
    /\ \A o \in Tasks : o < t => tasks[o].pc # "idle"

\* the exceptions a handler can meet: json.loads, the pydantic model, the
\* session, publish_message
ExceptionKinds ==
    {"JSONDecodeError", "ValidationError", "StorageError", "PublishError"}

\* a handler with the first except clause only
OuterExcept_JsonOnly(kind) == kind = "JSONDecodeError"

\* `except json.JSONDecodeError` and `except Exception` around the handler's
\* body: whether an exception of this kind is caught there
OuterExcept(kind) == kind \in ExceptionKinds

\* a handler that rejects the deliveries it could not process
ProcessExit_NackFailures(escaped, failed) ==
    IF escaped \/ failed THEN "reject" ELSE "ack"

\* a handler that puts the deliveries it could not process back on the queue
ProcessExit_RequeueFailures(escaped, failed) ==
    IF escaped \/ failed THEN "requeue" ELSE "ack"

\* `async with message.process()`: the delivery is acknowledged when the
\* body ends normally, whatever it did, and rejected without requeue when an
\* exception leaves it
ProcessExit(escaped, failed) == IF escaped THEN "reject" ELSE "ack"

\* user.create and user.created are declared without dead-letter arguments:
\* a rejected delivery of theirs is not routed to dead_letter_queue
DeadLetterRouted(q) == FALSE

\* a delivery that is put back on its queue when the handler met an exception
Outcome_RetryOnException(kind, failed) ==
    IF kind # NULL THEN "requeue" ELSE "ack"

\* how the delivery is settled when the handler's body ends: with no
\* exception at its outer level (kind is NULL), or with one that the outer
\* except clauses catch or let go
Outcome(kind, failed) ==
    ProcessExit(kind # NULL /\ ~OuterExcept(kind), failed)

\* the handler's body ends
HandlerExit(q, kind, failed) ==
    LET escaped == kind # NULL /\ ~OuterExcept(kind)
        outcome == Outcome(kind, failed)
    IN  broker' = [settled |-> broker.settled \cup {<<q, outcome>>},
                   escaped |-> IF escaped THEN broker.escaped \cup {kind}
                               ELSE broker.escaped,
                   dlq |-> IF outcome = "reject" /\ DeadLetterRouted(q)
                           THEN broker.dlq \cup {q} ELSE broker.dlq]

(***************************************************************************)
(* A transaction is one step, from its first flush to its commit or       *)
(* rollback: an insert that conflicts with a row another open transaction *)
(* has flushed waits until that transaction ends, so two conflicting      *)
(* transactions never overlap. What the handlers read before their first  *)
(* flush (the ledger lookup) is a step of its own, and so is the second   *)
(* transaction of an error path.                                          *)
(***************************************************************************)

----------------------------------------------------------------------------
(* user-service: handle_user_create_message *)

\* a replay branch that restores the status and forgets the user_id
RestoreResponse_StatusOnly(response, processed_message) ==
    LET result_data == processed_message.result_data
    IN  IF processed_message.status = "success"
        THEN [response EXCEPT !.status = SUCCESS]
        ELSE IF Get(result_data, "status") # NULL
        THEN [response EXCEPT !.status = Get(result_data, "status")]
        ELSE response

\* a response that takes the request's id for its own
ResponseId_Echo(request_id, k) == request_id

\* UserCreatedResponse.message_id: a fresh uuid for the k-th response built
\* for a request
ResponseId(request_id, k) == uuid4(request_id, "." \o ToString(k))

\* the replay branch: the response rebuilt from the ledger row found
RestoreResponse(response, processed_message) ==
    LET result_data == processed_message.result_data
        r1 == IF Get(result_data, "user_id") # NULL
              THEN [response EXCEPT !.user_id = Get(result_data, "user_id")]
              ELSE response
        r2 == IF Get(result_data, "status") # NULL
              THEN [r1 EXCEPT !.status = Get(result_data, "status")]
              ELSE r1
    IN  IF processed_message.status = "success"
        THEN [r2 EXCEPT !.status = SUCCESS]
        ELSE r2

\* the message is taken from user.create and decoded, the response is
\* initialised and the ledger is looked up
UserBegin(t, m) ==
    /\ LowestIdle(userTask, t)
    /\ m \in createQueue
    /\ createQueue' = createQueue \ {m}
    /\ delivered' = [delivered EXCEPT ![USER_CREATE_QUEUE] = @ \cup {m}]
    /\ deliveryCount' = [deliveryCount EXCEPT ![m.message_id] = @ + 1]
    /\ LET request == UserCreateRequest(m.message_id, m.username)
           response == UserCreatedResponse(
                           ResponseId(request.message_id,
                                      deliveryCount[m.message_id] + 1),
                           request.message_id, UNKNOWN_ERROR, request.username)
           processed_message == check_message_processed(
                           userProcessed, request.message_id, USER_CREATE_QUEUE)
       IN  /\ userTask' = [userTask EXCEPT ![t] =
                IF processed_message # {}
                THEN [IdleUserTask EXCEPT !.pc = "replay", !.request = request,
                        !.response = RestoreResponse(response,
                                        CHOOSE pm \in processed_message : TRUE)]
                ELSE [IdleUserTask EXCEPT !.pc = "create", !.request = request,
                        !.response = response]]
           /\ history' = [history EXCEPT
                !.overlapped = IF \E o \in Tasks \ {t} :
                                userTask[o].request.message_id = request.message_id
                          THEN @ \cup {request.message_id} ELSE @,
                !.raced = IF /\ processed_message = {}
                             /\ \E o \in Tasks \ {t} :
                                /\ userTask[o].request.message_id = request.message_id
                                /\ userTask[o].pc \in {"create", "save_err"}
                          THEN @ \cup {request.message_id} ELSE @]
    /\ UNCHANGED <<users, userProcessed, authUsers, authProcessed, createdQueue,
                   authTask, http, redeliveries, clientVars, faultVars>>

\* publish_message(USER_CREATED_QUEUE, response.model_dump()); the handler
\* returns and message.process() acknowledges the delivery
PublishResponse(t, response, rejected, new_users) ==
    /\ createdQueue' = createdQueue \cup {response}
    /\ history' = [history EXCEPT
            !.completions = @ \cup
                {[c |-> response, rejected |-> rejected,
                  request |-> userTask[t].request.message_id]},
            !.created = @ \cup
                {<<response.request_id, r.id>> : r \in new_users}]
    /\ userTask' = [userTask EXCEPT ![t] = IdleUserTask]
    /\ HandlerExit(USER_CREATE_QUEUE, NULL, response.status # SUCCESS)

\* the replay branch: nothing to commit, the restored response is published
UserReplay(t) ==
    /\ userTask[t].pc = "replay"
    /\ PublishResponse(t, userTask[t].response, FALSE, {})
    /\ UNCHANGED <<users, userProcessed, authUsers, authProcessed,
                   createQueue, authTask, http, deliveryCount, delivered,
                   redeliveries, clientVars, faults>>

\* the new-message branch: crud.create (add, flush), the success response,
\* save_processed_message(..., "success", {user_id, status}) (add, flush),
\* session.commit(), then the publish. A flush that violates a unique
\* constraint raises: except Exception rolls back, classifies str(e) and
\* sets error_message
UserCreate(t) ==
    LET task == userTask[t]
        db_user == [id |-> uuid4("U", task.response.message_id),
                    username |-> task.request.username]
        created == [task.response EXCEPT !.status = SUCCESS,
                                         !.user_id = db_user.id]
        processed_msg == ProcessedMessage(userProcessed, task.request.message_id,
                            USER_CREATE_QUEUE, "success",
                            [user_id |-> created.user_id,
                             status |-> created.status])
        Raise(response, e, rejected) ==
            /\ userTask' = [userTask EXCEPT ![t] =
                    [task EXCEPT !.pc = "save_err", !.e = e,
                        !.rejected = rejected,
                        !.response = [response EXCEPT
                                        !.status = ClassifyError(e),
                                        !.error_message = e]]]
            /\ UNCHANGED <<users, userProcessed, createdQueue, history,
                           broker>>
    IN  /\ task.pc = "create"
        /\ IF \E r \in users : UsersConflict(r, db_user)
           THEN Raise(task.response, ErrUniqueUsername, FALSE)
           ELSE IF \E r \in userProcessed : UserLedgerConflict(r, processed_msg)
           THEN Raise(created, ErrUniqueMessageId, TRUE)
           ELSE /\ users' = users \cup {db_user}
                /\ userProcessed' = userProcessed \cup {processed_msg}
                /\ PublishResponse(t, created, FALSE, {db_user})
        /\ UNCHANGED <<authUsers, authProcessed, createQueue, authTask, http,
                       deliveryCount, delivered, redeliveries, clientVars,
                       faults>>

\* the error record: save_processed_message(..., "error", {error, status})
\* and its commit; when the flush raises, the inner except rolls back. Either
\* way the response is published
UserSaveErr(t) ==
    LET task == userTask[t]
        processed_msg == ProcessedMessage(userProcessed, task.request.message_id,
                            USER_CREATE_QUEUE, "error",
                            [error |-> task.e, status |-> task.response.status])
    IN  /\ task.pc = "save_err"
        /\ IF \E r \in userProcessed : UserLedgerConflict(r, processed_msg)
           THEN /\ PublishResponse(t, task.response, TRUE, {})
                /\ UNCHANGED userProcessed
           ELSE /\ userProcessed' = userProcessed \cup {processed_msg}
                /\ PublishResponse(t, task.response, task.rejected, {})
        /\ UNCHANGED <<users, authUsers, authProcessed, createQueue, authTask,
                       http, deliveryCount, delivered, redeliveries, clientVars,
                       faults>>

\* user-service POST /create_user: crud.create, then the session's commit
UserHttpCreate(u) ==
    LET db_user == [id |-> uuid4("U", "d" \o ToString(history.direct + 1)),
                    username |-> u]
    IN  /\ history.direct < MaxDirect
        /\ history' = [history EXCEPT !.direct = @ + 1]
        /\ users' = IF \E r \in users : UsersConflict(r, db_user)
                    THEN users ELSE users \cup {db_user}
        /\ UNCHANGED <<userProcessed, authUsers, authProcessed, createQueue,
                       createdQueue, userTask, authTask, http, deliveryCount,
                       delivered, redeliveries, clientVars,
                       faultVars>>

----------------------------------------------------------------------------
(* auth-service: handle_user_created_message *)

\* a handler that takes every response for a success
IsSuccess_Always(response) == TRUE

\* a handler for which a user_id is enough without the success status
IsSuccess_StatusOrId(response) ==
    response.status = SUCCESS \/ response.user_id # NULL

\* a handler that looks at the user_id only
IsSuccess_IdOnly(response) == response.user_id # NULL

\* `response.status == UserCreationStatus.SUCCESS and response.user_id`
IsSuccess(response) == response.status = SUCCESS /\ response.user_id # NULL

\* the message is taken from user.created and decoded; a success response
\* with a user_id goes on to the ledger lookup, any other to the error record
AuthBegin(t, m) ==
    /\ LowestIdle(authTask, t)
    /\ m \in createdQueue
    /\ createdQueue' = createdQueue \ {m}
    /\ delivered' = [delivered EXCEPT ![USER_CREATED_QUEUE] = @ \cup {m}]
    /\ LET response == m
           processed_message == check_message_processed(
                        authProcessed, response.message_id, USER_CREATED_QUEUE)
           dup == \E pm \in authProcessed : pm.message_id = response.message_id
       IN  authTask' = [authTask EXCEPT ![t] =
                [IdleAuthTask EXCEPT
                    !.response = response,
                    !.dup = dup,
                    !.pc = IF IsSuccess(response)
                           THEN IF processed_message # {} THEN "skip"
                                ELSE "update"
                           ELSE "save_fail"]]
    /\ UNCHANGED <<users, userProcessed, authUsers, authProcessed, createQueue,
                   userTask, http, deliveryCount, redeliveries, history,
                   clientVars, faultVars>>

\* an update_user_id whose UPDATE is never flushed
update_user_id_Lost(rows, username, user_id) == rows

\* crud.update_user_id: the rows of auth_users after the row of `username`
\* got `user_id`; unchanged when there is no such row (the function then
\* returns None)
update_user_id(rows, username, user_id) ==
    {IF r.username = username THEN [r EXCEPT !.user_id = user_id] ELSE r :
        r \in rows}

\* the already-processed branch: nothing is written, the empty transaction
\* is committed and the delivery acknowledged
AuthSkip(t) ==
    /\ authTask[t].pc = "skip"
    /\ authTask' = [authTask EXCEPT ![t] = IdleAuthTask]
    /\ HandlerExit(USER_CREATED_QUEUE, NULL, FALSE)
    /\ UNCHANGED <<users, userProcessed, authUsers, authProcessed,
                   createQueue, createdQueue, userTask, http, deliveryCount,
                   delivered, redeliveries, history, clientVars, faults>>

\* the new-message branch: update_user_id (flush),
\* save_processed_message(..., "success" if updated_user else "error",
\* {username, user_id, updated}) (flush), session.commit(). A flush that
\* violates a unique constraint raises: except Exception rolls back
AuthUpdate(t) ==
    LET task == authTask[t]
        response == task.response
        updated_user == \E r \in authUsers : r.username = response.username
        auth_user == [username |-> response.username,
                      user_id |-> response.user_id]
        processed_msg == ProcessedMessage(authProcessed, response.message_id,
                            USER_CREATED_QUEUE,
                            IF updated_user THEN "success" ELSE "error",
                            [username |-> response.username,
                             user_id |-> response.user_id,
                             updated |-> updated_user])
        Raise(e) ==
            /\ authTask' = [authTask EXCEPT ![t] =
                    [task EXCEPT !.pc = "save_err", !.e = e]]
            /\ UNCHANGED <<authUsers, authProcessed, broker>>
    IN  /\ task.pc = "update"
        /\ IF updated_user /\ \E r \in authUsers : AuthUserIdConflict(auth_user, r)
           THEN Raise(ErrUniqueUserId)
           ELSE IF \E r \in authProcessed : AuthLedgerConflict(r, processed_msg)
           THEN Raise(ErrUniqueMessageId)
           ELSE /\ authUsers' = update_user_id(authUsers, response.username,
                                               response.user_id)
                /\ authProcessed' = authProcessed \cup {processed_msg}
                /\ authTask' = [authTask EXCEPT ![t] = IdleAuthTask]
                /\ HandlerExit(USER_CREATED_QUEUE, NULL, ~updated_user)
        /\ UNCHANGED <<users, userProcessed, createQueue, createdQueue,
                       userTask, http, deliveryCount, delivered, redeliveries,
                       history, clientVars, faults>>

\* an error record and its commit; when the flush raises, the except rolls
\* back. Either way the handler returns
AuthSaveErrorRecord(t, result_data) ==
    LET processed_msg == ProcessedMessage(authProcessed,
                            authTask[t].response.message_id,
                            USER_CREATED_QUEUE, "error", result_data)
    IN  /\ authProcessed' =
                IF \E r \in authProcessed : AuthLedgerConflict(r, processed_msg)
                THEN authProcessed
                ELSE authProcessed \cup {processed_msg}
        /\ authTask' = [authTask EXCEPT ![t] = IdleAuthTask]
        /\ HandlerExit(USER_CREATED_QUEUE, NULL, TRUE)
        /\ UNCHANGED <<users, userProcessed, authUsers, createQueue,
                       createdQueue, userTask, http, deliveryCount, delivered,
                       redeliveries, history, clientVars, faults>>

\* save_processed_message(..., "error", {username, error}) after the rollback
AuthSaveErr(t) ==
    /\ authTask[t].pc = "save_err"
    /\ AuthSaveErrorRecord(t, [username |-> authTask[t].response.username,
                               error |-> authTask[t].e])

\* the else branch: a response that is not a success is recorded as an error
AuthSaveFail(t) ==
    /\ authTask[t].pc = "save_fail"
    /\ AuthSaveErrorRecord(t,
            [username |-> authTask[t].response.username,
             status |-> authTask[t].response.status,
             error_message |-> authTask[t].response.error_message])

----------------------------------------------------------------------------
(* auth-service: POST /create_user *)

RequestId(r) == uuid4("M", ToString(r))

\* the UserCreateRequest is built and published to user.create
HttpPublish(r, u) ==
    /\ http[r].pc = "new"
    /\ \A q \in Requests : q < r => http[q].pc # "new"
    /\ LET user_create_request == UserCreateRequest(RequestId(r), u)
       IN  /\ createQueue' = createQueue \cup {user_create_request}
           /\ http' = [http EXCEPT ![r] =
                    [pc |-> "create", username |-> u,
                     message_id |-> user_create_request.message_id]]
    /\ UNCHANGED <<users, userProcessed, authUsers, authProcessed,
                   createdQueue, userTask, authTask, deliveryCount, delivered,
                   redeliveries, history, clientVars, faultVars>>

\* crud.create, then the commit of get_async_session; a username that is
\* taken makes the flush raise and the request fail
HttpCreate(r) ==
    LET db_user == [username |-> http[r].username, user_id |-> NULL]
    IN  /\ http[r].pc = "create"
        /\ IF \E x \in authUsers : AuthUsernameConflict(x, db_user)
           THEN /\ http' = [http EXCEPT ![r].pc = "failed"]
                /\ UNCHANGED authUsers
           ELSE /\ http' = [http EXCEPT ![r].pc = "done"]
                /\ authUsers' = authUsers \cup {db_user}
        /\ UNCHANGED <<users, userProcessed, authProcessed, createQueue,
                       createdQueue, userTask, authTask, deliveryCount,
                       delivered, redeliveries, history, clientVars, faultVars>>

----------------------------------------------------------------------------
(* Broker *)

\* at-least-once delivery: a message that was delivered before is put back
\* on its queue
Redeliver(q, m) ==
    /\ redeliveries < MaxRedeliver
    /\ m \in delivered[q]
    /\ redeliveries' = redeliveries + 1
    /\ IF q = USER_CREATE_QUEUE
       THEN /\ m \notin createQueue
            /\ createQueue' = createQueue \cup {m}
            /\ UNCHANGED createdQueue
       ELSE /\ m \notin createdQueue
            /\ createdQueue' = createdQueue \cup {m}
            /\ UNCHANGED createQueue
    /\ UNCHANGED <<users, userProcessed, authUsers, authProcessed, userTask,
                   authTask, http, deliveryCount, delivered, history,
                   clientVars, faultVars>>

----------------------------------------------------------------------------
(* The saga *)

\* Settings.RABBITMQ_RETRY_COUNT: int = 5
RABBITMQ_RETRY_COUNT == 5

\* RabbitMQClient.__init__, no connect() running, the process not started,
\* the settings read with RABBITMQ_RETRY_COUNT = retry_count
ClientIdleWith(retry_count) ==
    /\ client = [connection |-> FALSE, channel |-> FALSE, exchange |-> FALSE,
                 consumers |-> {}, consume_task |-> "none",
                 subscriptions |-> {}, connected |-> FALSE]
    /\ conn = [pc |-> "none", attempt |-> 0, failures |-> 0, slept |-> <<>>,
               caller |-> "none"]
    /\ app = [phase |-> "init", startup |-> "pending", published |-> "none",
              request |-> NULL, username |-> NULL, response |-> "none",
              fresh |-> FALSE, retry_count |-> retry_count]
    /\ brokerUp = TRUE

\* the process with the default settings
ClientIdle == ClientIdleWith(RABBITMQ_RETRY_COUNT)

\* both databases initialised and empty, nothing on the queues
InitSaga ==
    /\ users = {}
    /\ userProcessed = {}
    /\ authUsers = {}
    /\ authProcessed = {}
    /\ createQueue = {}
    /\ createdQueue = {}
    /\ userTask = [t \in Tasks |-> IdleUserTask]
    /\ authTask = [t \in Tasks |-> IdleAuthTask]
    /\ http = [r \in Requests |->
                [pc |-> "new", username |-> NULL, message_id |-> NULL]]
    /\ deliveryCount = [i \in {RequestId(r) : r \in Requests} |-> 0]
    /\ delivered = [q \in {USER_CREATE_QUEUE, USER_CREATED_QUEUE} |-> {}]
    /\ redeliveries = 0
    /\ history = [completions |-> {}, created |-> {}, raced |-> {},
                  overlapped |-> {}, dropped |-> {},
                  invocations |-> {}, starts |-> 0,
                  direct |-> 0]
    /\ faults = 0
    /\ broker = [settled |-> {}, escaped |-> {}, dlq |-> {}]

Init ==
    /\ InitSaga
    /\ ClientIdle

Next ==
    \/ \E r \in Requests, u \in Usernames : HttpPublish(r, u)
    \/ \E r \in Requests : HttpCreate(r)
    \/ \E u \in Usernames : UserHttpCreate(u)
    \/ \E t \in Tasks, m \in createQueue : UserBegin(t, m)
    \/ \E t \in Tasks : UserReplay(t)
    \/ \E t \in Tasks : UserCreate(t)
    \/ \E t \in Tasks : UserSaveErr(t)
    \/ \E t \in Tasks, m \in createdQueue : AuthBegin(t, m)
    \/ \E t \in Tasks : AuthSkip(t)
    \/ \E t \in Tasks : AuthUpdate(t)
    \/ \E t \in Tasks : AuthSaveErr(t)
    \/ \E t \in Tasks : AuthSaveFail(t)
    \/ \E q \in {USER_CREATE_QUEUE, USER_CREATED_QUEUE} :
            \E m \in delivered[q] : Redeliver(q, m)

Spec == Init /\ [][Next]_vars

----------------------------------------------------------------------------
(* Observations the properties are stated on *)

RequestIds == {RequestId(r) : r \in Requests}

\* the ids of the users committed by deliveries of request m
CreatedFor(m) == {p[2] : p \in {q \in history.created : q[1] = m}}

\* the UserCreatedResponse messages published for request m
CompletionsFor(m) ==
    {x.c : x \in {y \in history.completions : y.c.request_id = m}}

\* the ledger rows of request m in user-service
UserLedgerFor(m) ==
    {pm \in userProcessed :
        pm.message_id = m /\ pm.source_queue = USER_CREATE_QUEUE}

\* no delivery of request m is being handled
NotInProgress(m) == \A t \in Tasks : userTask[t].request.message_id # m

\* request m was delivered at least twice, one delivery after the other,
\* and every delivery has returned
DeliveredTwiceInTurn(m) ==
    /\ deliveryCount[m] >= 2
    /\ m \notin history.overlapped
    /\ NotInProgress(m)

\* two deliveries of request m both found no ledger row, and both returned
RacedAndReturned(m) == m \in history.raced /\ NotInProgress(m)

----------------------------------------------------------------------------
(* C1 *)

----------------------------------------------------------------------------
(* C2 *)

AuthLedgerHas(message_id) ==
    \E pm \in authProcessed : pm.message_id = message_id

\* C2: a delivery of a success completion whose ledger row is already there
\* changes neither auth_users nor processed_messages; the delivery that
\* finds no row and finds the identity record sets its user_id and writes
\* the row
C2_IdempotentCompletion ==
    [][\A t \in Tasks :
        LET task == authTask[t]
            c == task.response
        IN  (task.pc # "idle" /\ authTask'[t] # task /\ IsSuccess(c)) =>
                IF AuthLedgerHas(c.message_id)
                THEN authUsers' = authUsers /\ authProcessed' = authProcessed
                ELSE (\E r \in authUsers : r.username = c.username) =>
                        /\ \E r \in authUsers' : /\ r.username = c.username
                                                 /\ r.user_id = c.user_id
                        /\ \E pm \in authProcessed' :
                                /\ pm.message_id = c.message_id
                                /\ pm.status = "success"
    ]_vars

\* the second delivery of a completion is being skipped and the record
\* already has the user_id the first delivery set
C2_Witness ==
    \E t \in Tasks :
        /\ authTask[t].pc = "skip"
        /\ authTask[t].dup
        /\ \E pm \in authProcessed :
                /\ pm.message_id = authTask[t].response.message_id
                /\ pm.status = "success"
        /\ \E r \in authUsers :
                /\ r.username = authTask[t].response.username
                /\ r.user_id = authTask[t].response.user_id

----------------------------------------------------------------------------
(* C3 *)

\* C3: in every step, each identity record stays, and its user_id stays
\* the same or goes from null to a value
C3_MonotonicCompletion ==
    [][\A r \in authUsers :
        \E n \in authUsers' :
            /\ n.username = r.username
            /\ (r.user_id = NULL \/ n.user_id = r.user_id)
    ]_vars

\* a completion with another message_id is about to be applied to a record
\* that already has its user_id
C3_Witness ==
    \E t \in Tasks :
        /\ authTask[t].pc = "update"
        /\ ~AuthLedgerHas(authTask[t].response.message_id)
        /\ \E r \in authUsers :
                /\ r.username = authTask[t].response.username
                /\ r.user_id # NULL

----------------------------------------------------------------------------
(* C4 *)

\* C4: in each service's processed_messages no two rows have the same
\* (message_id, source_queue)
C4_LedgerUniqueness ==
    /\ \A a, b \in authProcessed :
            (a.message_id = b.message_id /\ a.source_queue = b.source_queue)
                => a = b
    /\ \A a, b \in userProcessed :
            (a.message_id = b.message_id /\ a.source_queue = b.source_queue)
                => a = b

\* the insert of a second row for a message was rejected in auth-service
C4_Witness ==
    \E t \in Tasks :
        /\ authTask[t].pc = "save_err"
        /\ authTask[t].e = ErrUniqueMessageId
        /\ AuthLedgerHas(authTask[t].response.message_id)

----------------------------------------------------------------------------
(* C5 *)

\* C5 as stated: after two deliveries of request m that both found no
\* ledger row, exactly one user and one ledger row exist for m
C5_Original ==
    \A m \in RequestIds : RacedAndReturned(m) =>
        /\ Cardinality(CreatedFor(m)) = 1
        /\ Cardinality(UserLedgerFor(m)) = 1

\* C5 (amended): after two deliveries of request m that both found no
\* ledger row, at most one of them committed a user: exactly one ledger
\* row exists for m, and one user exists for m when that row says success,
\* none when it says error (the username was already taken)
C5_ConcurrentSingleEffect ==
    \A m \in RequestIds : RacedAndReturned(m) =>
        /\ Cardinality(CreatedFor(m)) <= 1
        /\ Cardinality(UserLedgerFor(m)) = 1
        /\ \A pm \in UserLedgerFor(m) :
                IF pm.status = "success"
                THEN /\ CreatedFor(m) = {pm.result_data.user_id}
                     /\ \E u \in users : u.id = pm.result_data.user_id
                ELSE CreatedFor(m) = {}

\* two raced deliveries returned and one of them created the user
C5_Witness ==
    \E m \in RequestIds :
        /\ RacedAndReturned(m)
        /\ Cardinality(CreatedFor(m)) = 1
        /\ Cardinality(CompletionsFor(m)) >= 2

----------------------------------------------------------------------------
(* C6 *)

\* C6 as stated: a completion published by a delivery whose ledger insert
\* was rejected reports what the ledger row of the winning delivery says:
\* its status and its user_id
C6_Original ==
    \A x \in history.completions : x.rejected =>
        \A pm \in UserLedgerFor(x.c.request_id) :
            /\ x.c.status = Get(pm.result_data, "status")
            /\ x.c.user_id = Get(pm.result_data, "user_id")

----------------------------------------------------------------------------
(* C7 *)

\* nothing is in flight and nothing more will be sent or redelivered
Terminated ==
    /\ createQueue = {} /\ createdQueue = {}
    /\ \A t \in Tasks : userTask[t].pc = "idle" /\ authTask[t].pc = "idle"
    /\ \A r \in Requests : http[r].pc # "create"
    /\ redeliveries = MaxRedeliver

\* request r is the only one made for its username, its identity record
\* was created, and the one user of that name is the one the saga created
\* for it
Scenario1(r) ==
    /\ http[r].pc = "done"
    /\ \A q \in Requests \ {r} : http[q].username # http[r].username
    /\ CreatedFor(RequestId(r)) # {}
    /\ \A u \in users : u.username = http[r].username =>
                            u.id \in CreatedFor(RequestId(r))

\* C7 as stated, at the end of a run: when everything has been handled, a
\* create request for a username new to both services has the id of the
\* user created for it on its identity record
C7_Original ==
    Terminated =>
        \A r \in Requests : Scenario1(r) =>
                \E a \in authUsers :
                    /\ a.username = http[r].username
                    /\ a.user_id \in CreatedFor(RequestId(r))

----------------------------------------------------------------------------
(* C8 *)

\* C8 as stated: a completion for a request whose username was taken has
\* status duplicate_username and no user_id
C8_Original ==
    \A x \in history.completions :
        x.c.error_message = ErrUniqueUsername =>
            x.c.status = DUPLICATE_USERNAME /\ x.c.user_id = NULL

----------------------------------------------------------------------------
(* auth-service: RabbitMQClient.connect and the startup hook *)

\* `for attempt in range(5)`
ConnectAttempts == 5
\* `if attempt < 4`
LastAttempt == 4

\* a linear backoff
BackoffDelay_Linear(attempt) == 2 * attempt

\* `2 ** attempt`, the seconds slept after the failed attempt
BackoffDelay(attempt) == 2 ^ attempt

\* a cleanup that clears the flag and keeps the objects
Unconnected_FlagOnly(c) == [c EXCEPT !.connected = FALSE]

\* the except branch of connect(): after the cleanup the fields are unset;
\* the consumers of a closed connection are gone with it
Unconnected(c) ==
    [c EXCEPT !.connection = FALSE, !.channel = FALSE, !.exchange = FALSE,
              !.subscriptions = {}, !.connected = FALSE]

\* the callback auth-service registers for user.created
HANDLE_USER_CREATED == "handle_user_created_message"

\* `self._consumers[queue_name] = callback`: the dict as a set of
\* <<queue_name, callback>> items, one per key
register_consumer(consumers, queue_name, callback) ==
    {p \in consumers : p[1] # queue_name} \cup {<<queue_name, callback>>}

\* a start_consuming without the test of the running task
TaskRunning_Never(c) == FALSE

\* `self._consume_task is not None and not self._consume_task.done()`
TaskRunning(c) == c.consume_task # "none"

\* _consume(): queue.consume(callback) for every item of _consumers; each
\* call adds a consumer of its own to the channel (the consumers only grow
\* while the connection lives, so their number names the next consumer tag)
Subscribe(c) ==
    [c EXCEPT !.consume_task = "running",
              !.subscriptions = @ \cup
                    {[queue |-> p[1], callback |-> p[2],
                      tag |-> Cardinality(c.subscriptions) + 1] :
                        p \in c.consumers}]

\* stop_consuming(): the task is cancelled, awaited and forgotten; the
\* consumers it added to the channel are not cancelled
stop_consuming(c) == [c EXCEPT !.consume_task = "none"]

\* connect() is called by `caller`; a connected client returns at once
ConnectCall(caller) ==
    conn' = IF client.connected
            THEN [pc |-> "returned", attempt |-> 0, failures |-> 0,
                  slept |-> <<>>, caller |-> caller]
            ELSE [pc |-> "try", attempt |-> 0, failures |-> 0,
                  slept |-> <<>>, caller |-> caller]

\* one pass of the retry loop: connect_robust succeeds and the loop breaks,
\* or it raises: before the last attempt the sleep starts, at the last
\* attempt the exception goes to the outer except, which unsets the fields
\* and raises to the caller
ConnectTry ==
    /\ conn.pc = "try"
    /\ conn.attempt < ConnectAttempts
    /\ IF brokerUp
       THEN /\ client' = [client EXCEPT !.connection = TRUE]
            /\ conn' = [conn EXCEPT !.pc = "topology"]
       ELSE IF conn.attempt < LastAttempt
       THEN /\ conn' = [conn EXCEPT !.pc = "sleep", !.failures = @ + 1,
                            !.slept = Append(@, BackoffDelay(conn.attempt))]
            /\ UNCHANGED client
       ELSE /\ conn' = [conn EXCEPT !.pc = "raised", !.failures = @ + 1]
            /\ client' = Unconnected(client)
    /\ UNCHANGED <<app, brokerUp, sagaVars, faultVars>>

\* asyncio.sleep returns and the loop goes to the next attempt
ConnectSleep ==
    /\ conn.pc = "sleep"
    /\ conn' = [conn EXCEPT !.pc = "try", !.attempt = @ + 1]
    /\ UNCHANGED <<client, app, brokerUp, sagaVars, faultVars>>

\* the channel, the exchange, the queues and the dead-letter topology are
\* declared and _connected is set; an exception on the way closes the
\* connection, unsets the fields and is raised to the caller
ConnectTopology ==
    /\ conn.pc = "topology"
    /\ IF brokerUp
       THEN /\ client' = [client EXCEPT !.channel = TRUE, !.exchange = TRUE,
                                        !.connected = TRUE]
            /\ conn' = [conn EXCEPT !.pc = "returned"]
       ELSE /\ client' = Unconnected(client)
            /\ conn' = [conn EXCEPT !.pc = "raised"]
    /\ UNCHANGED <<app, brokerUp, sagaVars, faultVars>>

\* startup_db_client: the database is initialised and connect() is called
Startup ==
    /\ app.phase = "init"
    /\ conn.pc = "none"
    /\ app' = [app EXCEPT !.phase = "startup"]
    /\ ConnectCall("startup")
    /\ UNCHANGED <<client, brokerUp, sagaVars, faultVars>>

\* startup_db_client after connect(): register_message_handlers and
\* start_consuming when it returned; when it raised, except Exception logs
\* the error. Either way the hook returns and the application serves
StartupDone ==
    /\ app.phase = "startup"
    /\ conn.caller = "startup"
    /\ conn.pc \in {"returned", "raised"}
    /\ IF conn.pc = "returned"
       THEN /\ client' = Subscribe(
                    [client EXCEPT !.consumers = register_consumer(
                            @, USER_CREATED_QUEUE, HANDLE_USER_CREATED)])
            /\ app' = [app EXCEPT !.phase = "serving", !.startup = "ok"]
       ELSE /\ app' = [app EXCEPT !.phase = "serving",
                        !.startup = IF conn.failures = ConnectAttempts
                                    THEN "exhausted" ELSE "raised"]
            /\ UNCHANGED client
    /\ conn' = [conn EXCEPT !.pc = "none", !.caller = "none"]
    /\ UNCHANGED <<brokerUp, sagaVars, faultVars>>

\* create_user builds the UserCreateRequest and calls publish_message, which
\* calls connect() first when the client is not connected
PublishCall(u) ==
    /\ app.phase = "serving"
    /\ conn.pc = "none"
    /\ app.request = NULL
    /\ app' = [app EXCEPT !.request = u, !.username = u,
                          !.published = "calling", !.response = "none",
                          !.fresh = ~\E a \in authUsers : a.username = u]
    /\ ConnectCall("publish")
    /\ UNCHANGED <<client, brokerUp, sagaVars, faultVars>>

\* publish_message after connect(): True when exchange.publish returns,
\* False when it raises. connect() is called outside the try: its exception
\* leaves publish_message and create_user, and the request ends with a
\* server error
PublishDone ==
    /\ conn.caller = "publish"
    /\ conn.pc \in {"returned", "raised"}
    /\ app' = IF conn.pc = "raised"
              THEN [app EXCEPT !.published = "raised", !.response = "500",
                               !.request = NULL]
              ELSE [app EXCEPT !.published =
                                    IF brokerUp THEN "true" ELSE "false"]
    /\ conn' = [conn EXCEPT !.pc = "none", !.caller = "none"]
    /\ UNCHANGED <<client, brokerUp, sagaVars, faultVars>>

\* create_user after publish_message returned: the result is only logged,
\* then crud.create and the commit of get_async_session; a username that is
\* taken makes the flush raise
CreateAfterPublish ==
    LET db_user == [username |-> app.request, user_id |-> NULL]
    IN  /\ app.request # NULL
        /\ app.published \in {"true", "false"}
        /\ IF \E x \in authUsers : AuthUsernameConflict(x, db_user)
           THEN /\ app' = [app EXCEPT !.request = NULL, !.response = "500"]
                /\ UNCHANGED authUsers
           ELSE /\ app' = [app EXCEPT !.request = NULL, !.response = "200"]
                /\ authUsers' = authUsers \cup {db_user}
        /\ UNCHANGED <<users, userProcessed, authProcessed, createQueue,
                       createdQueue, userTask, authTask, http, deliveryCount,
                       delivered, redeliveries, history, client, conn,
                       brokerUp, faultVars>>

\* the completions user-service sends in this specification
ClientCompletions ==
    {[UserCreatedResponse("R1", "M1", SUCCESS, "alice")
            EXCEPT !.user_id = "U1"],
     [UserCreatedResponse("R2", "M2", UNKNOWN_ERROR, "alice")
            EXCEPT !.error_message = ErrUniqueUsername]}

\* user-service publishes a completion to user.created
Arrive(m) ==
    /\ brokerUp
    /\ m \notin createdQueue \cup delivered[USER_CREATED_QUEUE]
    /\ createdQueue' = createdQueue \cup {m}
    /\ UNCHANGED <<users, userProcessed, authUsers, authProcessed,
                   createQueue, userTask, authTask, http, deliveryCount,
                   delivered, redeliveries, history, clientVars, faultVars>>

\* queue.consume(callback): the started consumer hands a message of
\* user.created to handle_user_created_message
Consume(t, m) ==
    /\ app.phase \in {"serving", "closing"}
    /\ client.connected
    /\ \E sub \in client.subscriptions : sub.queue = USER_CREATED_QUEUE
    /\ AuthBegin(t, m)

\* shutdown_event, close(), stop_consuming(): the task that started the
\* consumers and sleeps since is cancelled and awaited
StopConsuming ==
    /\ app.phase = "serving"
    /\ conn.pc = "none"
    /\ app.request = NULL
    /\ app' = [app EXCEPT !.phase = "closing"]
    /\ client' = stop_consuming(client)
    /\ UNCHANGED <<conn, brokerUp, sagaVars, faultVars>>

\* close() after stop_consuming(): `if self.connection:` connection.close()
\* and the fields unset; the shutdown hook returns and the process ends
CloseConnection ==
    /\ app.phase = "closing"
    /\ client' = IF client.connection THEN Unconnected(client) ELSE client
    /\ app' = [app EXCEPT !.phase = "stopped"]
    /\ UNCHANGED <<conn, brokerUp, sagaVars, faultVars>>

\* the broker becomes reachable or unreachable
BrokerChange ==
    /\ brokerUp' = ~brokerUp
    /\ UNCHANGED <<client, conn, app, sagaVars, faultVars>>

\* the process started with any configured retry bound
InitClient ==
    /\ InitSaga
    /\ \E retry_count \in RetryCounts : ClientIdleWith(retry_count)

\* the handlers run as long as the process does
NextClient ==
    \/ Startup
    \/ StartupDone
    \/ ConnectTry
    \/ ConnectSleep
    \/ ConnectTopology
    \/ \E u \in Usernames : PublishCall(u)
    \/ PublishDone
    \/ CreateAfterPublish
    \/ \E m \in ClientCompletions : Arrive(m)
    \/ \E t \in Tasks, m \in createdQueue : Consume(t, m)
    \/ \E t \in Tasks : app.phase \in {"serving", "closing"} /\ AuthUpdate(t)
    \/ \E t \in Tasks : app.phase \in {"serving", "closing"} /\ AuthSaveFail(t)
    \/ StopConsuming
    \/ CloseConnection
    \/ BrokerChange

SpecClient == InitClient /\ [][NextClient]_vars

----------------------------------------------------------------------------
(* C9 *)

\* C9: connect() makes at most 5 attempts; after the k-th failed attempt,
\* k = 1..4, it has slept 1, 2, 4, 8 seconds in that order and nothing
\* else; it leaves the loop at the first attempt that reaches the broker;
\* after the 5th failure it has not slept again and raises
C9_ConnectRetry ==
    /\ conn.attempt < ConnectAttempts
    /\ conn.failures <= ConnectAttempts
    /\ Len(conn.slept) <= 4
    /\ \A k \in 1..Len(conn.slept) : conn.slept[k] = 2 ^ (k - 1)
    /\ conn.pc = "try" => conn.failures = conn.attempt
                          /\ Len(conn.slept) = conn.attempt
    /\ conn.pc = "sleep" => conn.failures = conn.attempt + 1
                            /\ Len(conn.slept) = conn.failures
    /\ conn.pc = "topology" => /\ client.connection
                               /\ conn.failures = conn.attempt
                               /\ Len(conn.slept) = conn.failures
    /\ conn.failures = ConnectAttempts =>
            /\ conn.pc \notin {"try", "sleep", "topology", "returned"}
            /\ ~client.connection
            /\ conn.slept = <<1, 2, 4, 8>>

\* four attempts failed and the fifth reached the broker
C9_Witness ==
    /\ conn.pc = "topology"
    /\ conn.failures = 4
    /\ conn.slept = <<1, 2, 4, 8>>

----------------------------------------------------------------------------
(* C10 *)

\* C10 as stated: when the connect() of the startup hook raised after its
\* five attempts, the application does not go on to serve requests
C10_Original ==
    app.startup = "exhausted" => app.phase # "serving"

----------------------------------------------------------------------------
(* C14 *)

\* C14: every UserCreatedResponse handle_user_create_message published, on
\* first processing, on replay and on failure, has the message_id of the
\* request delivery being handled as its request_id, and a message_id of
\* its own that differs from it
C14_CorrelationKey ==
    \A x \in history.completions :
        /\ x.c.request_id = x.request
        /\ x.c.message_id # x.c.request_id

\* a request answered on first processing and on replay, and a request
\* answered with a failure
C14_Witness ==
    /\ \E x, y \in history.completions :
            /\ x.request = y.request
            /\ x.c.message_id # y.c.message_id
            /\ x.c.status = SUCCESS
    /\ \E z \in history.completions : z.c.status # SUCCESS

----------------------------------------------------------------------------
(* C19 *)

\* the UserCreateRequest messages on user.create or held by a handler
RequestsInFlight ==
    createQueue \cup
    {userTask[t].request : t \in {o \in Tasks : userTask[o].pc # "idle"}}

\* C19 as stated: whenever a UserCreateRequest for a username is in the
\* broker or being handled, an identity record with that username exists,
\* and a create call whose record creation failed has published nothing
C19_Original ==
    /\ \A m \in RequestsInFlight :
            \E a \in authUsers : a.username = m.username
    /\ \A r \in Requests :
            http[r].pc = "failed" =>
                RequestId(r) \notin
                    {m.message_id :
                        m \in delivered[USER_CREATE_QUEUE] \cup createQueue}

----------------------------------------------------------------------------
(* C20 *)

\* C20 as stated: publish_message ends by returning True or False and never
\* raises, whatever the state of the client and of the broker
C20_Original ==
    app.published # "raised"

----------------------------------------------------------------------------
(* C13 *)

\* C13 as stated: a create_user request for a username not yet in
\* auth_users whose publish failed, by a send error or because the client
\* could not connect, has ended with the identity record created and a
\* success response
C13_Original ==
    (/\ app.fresh
     /\ app.request = NULL
     /\ app.response # "none"
     /\ app.published \in {"false", "raised"}) =>
        /\ app.response = "200"
        /\ \E a \in authUsers : a.username = app.username

----------------------------------------------------------------------------
(* C12 *)

\* C12 as stated: when close() has returned no handler invocation is in
\* progress, and the connection is not closed while one is running
C12_Original ==
    app.phase = "stopped" =>
        \A t \in Tasks : authTask[t].pc = "idle"

----------------------------------------------------------------------------
(* The saga with malformed messages and failures of the storage and of    *)
(* the publisher                                                          *)

\* the failures injected in one run
MaxFaults == 2
\* the create requests made in a run with failures
MaxFaultHttp == 1

\* the malformed messages sent in one run
MaxMalformed == 1

FaultRequests == 1..MaxFaultHttp

\* a body that is no JSON, and a JSON object without the required fields
MalformedMessages == {[body |-> "{"], [timestamp |-> "t"]}

\* json.loads(body) and UserCreateRequest(**data) / UserCreatedResponse(**data):
\* the exception raised, NULL when the message decodes
DecodeError(m) ==
    IF "body" \in DOMAIN m THEN "JSONDecodeError"
    ELSE IF "username" \notin DOMAIN m THEN "ValidationError"
    ELSE NULL

WellFormed(queue) == {m \in queue : DecodeError(m) = NULL}

\* session.rollback(): the rows flushed in the transaction are discarded
\* and the committed rows stay
rollback_Keep(committed, flushed) == committed \cup flushed

rollback(committed, flushed) == committed

\* something other than the two services publishes a malformed message
SendMalformed(q, m) ==
    /\ Cardinality({x \in createQueue \cup createdQueue
                            \cup delivered[USER_CREATE_QUEUE]
                            \cup delivered[USER_CREATED_QUEUE] :
                        DecodeError(x) # NULL}) < MaxMalformed
    /\ m \notin delivered[q]
    /\ IF q = USER_CREATE_QUEUE
       THEN /\ m \notin createQueue
            /\ createQueue' = createQueue \cup {m}
            /\ UNCHANGED createdQueue
       ELSE /\ m \notin createdQueue
            /\ createdQueue' = createdQueue \cup {m}
            /\ UNCHANGED createQueue
    /\ UNCHANGED <<users, userProcessed, authUsers, authProcessed, userTask,
                   authTask, http, deliveryCount, delivered, redeliveries,
                   history, clientVars, faultVars>>

\* handle_user_create_message on a message that does not decode: the
\* exception is raised before anything is read or written, the except
\* clauses log it and the handler returns
UserMalformed(t, m) ==
    /\ LowestIdle(userTask, t)
    /\ m \in createQueue
    /\ DecodeError(m) # NULL
    /\ createQueue' = IF Outcome(DecodeError(m), TRUE) = "requeue"
                      THEN createQueue ELSE createQueue \ {m}
    /\ delivered' = [delivered EXCEPT ![USER_CREATE_QUEUE] = @ \cup {m}]
    /\ history' = [history EXCEPT !.dropped = @ \cup
            {[queue |-> USER_CREATE_QUEUE,
              waiting |-> {x.message_id : x \in WellFormed(createQueue)}]}]
    /\ HandlerExit(USER_CREATE_QUEUE, DecodeError(m), TRUE)
    /\ UNCHANGED <<users, userProcessed, authUsers, authProcessed,
                   createdQueue, userTask, authTask, http, deliveryCount,
                   redeliveries, clientVars, faults>>

\* handle_user_created_message on a message that does not decode
AuthMalformed(t, m) ==
    /\ LowestIdle(authTask, t)
    /\ m \in createdQueue
    /\ DecodeError(m) # NULL
    /\ createdQueue' = IF Outcome(DecodeError(m), TRUE) = "requeue"
                       THEN createdQueue ELSE createdQueue \ {m}
    /\ delivered' = [delivered EXCEPT ![USER_CREATED_QUEUE] = @ \cup {m}]
    /\ history' = [history EXCEPT !.dropped = @ \cup
            {[queue |-> USER_CREATED_QUEUE,
              waiting |-> {x.message_id : x \in WellFormed(createdQueue)}]}]
    /\ HandlerExit(USER_CREATED_QUEUE, DecodeError(m), TRUE)
    /\ UNCHANGED <<users, userProcessed, authUsers, authProcessed,
                   createQueue, userTask, authTask, http, deliveryCount,
                   redeliveries, clientVars, faults>>

\* handle_user_create_message when check_message_processed raises: except
\* Exception rolls back, classifies str(e) and goes on to the error record
UserBeginFault(t, m) ==
    /\ faults < MaxFaults
    /\ faults' = faults + 1
    /\ LowestIdle(userTask, t)
    /\ m \in createQueue
    /\ DecodeError(m) = NULL
    /\ createQueue' = createQueue \ {m}
    /\ delivered' = [delivered EXCEPT ![USER_CREATE_QUEUE] = @ \cup {m}]
    /\ deliveryCount' = [deliveryCount EXCEPT ![m.message_id] = @ + 1]
    /\ LET request == UserCreateRequest(m.message_id, m.username)
           response == UserCreatedResponse(
                           ResponseId(request.message_id,
                                      deliveryCount[m.message_id] + 1),
                           request.message_id, UNKNOWN_ERROR, request.username)
       IN  /\ userTask' = [userTask EXCEPT ![t] =
                [IdleUserTask EXCEPT !.pc = "save_err", !.request = request,
                    !.e = ErrStorage,
                    !.response = [response EXCEPT
                                    !.status = ClassifyError(ErrStorage),
                                    !.error_message = ErrStorage]]]
           /\ history' = [history EXCEPT
                !.overlapped = IF \E o \in Tasks \ {t} :
                                userTask[o].request.message_id = request.message_id
                          THEN @ \cup {request.message_id} ELSE @]
    /\ UNCHANGED <<users, userProcessed, authUsers, authProcessed, createdQueue,
                   authTask, http, redeliveries, clientVars, broker>>

\* the new-message branch when the storage fails: at crud.create, at
\* save_processed_message or at session.commit() (the user row is flushed
\* by then) the except branch rolls back and goes on to the error record;
\* when session.rollback() raises as well, the exception reaches the outer
\* except, nothing is published and the handler returns
UserCreateFault(t, step) ==
    LET task == userTask[t]
        db_user == [id |-> uuid4("U", task.response.message_id),
                    username |-> task.request.username]
        created == [task.response EXCEPT !.status = SUCCESS,
                                         !.user_id = db_user.id]
        response == IF step = "create" THEN task.response ELSE created
        flushed == IF step = "create" THEN {} ELSE {db_user}
    IN  /\ faults < MaxFaults
        /\ faults' = faults + 1
        /\ task.pc = "create"
        /\ step \in {"save", "commit"} =>
                ~\E r \in users : UsersConflict(r, db_user)
        /\ users' = rollback(users, flushed)
        /\ IF step = "rollback"
           THEN /\ userTask' = [userTask EXCEPT ![t] = IdleUserTask]
                /\ HandlerExit(USER_CREATE_QUEUE, "StorageError", TRUE)
           ELSE /\ userTask' = [userTask EXCEPT ![t] =
                    [task EXCEPT !.pc = "save_err", !.e = ErrStorage,
                        !.response = [response EXCEPT
                                        !.status = ClassifyError(ErrStorage),
                                        !.error_message = ErrStorage]]]
                /\ UNCHANGED broker
        /\ UNCHANGED <<userProcessed, authUsers, authProcessed, createQueue,
                       createdQueue, authTask, http, deliveryCount, delivered,
                       redeliveries, history, clientVars>>

\* the error record when the storage fails: the inner except rolls back and
\* the response is published
UserSaveErrFault(t) ==
    /\ faults < MaxFaults
    /\ faults' = faults + 1
    /\ userTask[t].pc = "save_err"
    /\ PublishResponse(t, userTask[t].response, userTask[t].rejected, {})
    /\ UNCHANGED <<users, userProcessed, authUsers, authProcessed, createQueue,
                   authTask, http, deliveryCount, delivered, redeliveries,
                   clientVars>>

\* the handler's last step when nothing can be published: the commit of
\* the step has happened, publish_message returns False (kind NULL) or
\* raises (kind "PublishError", caught by the outer except), no completion
\* is sent and the handler returns
UserPublishFault(t, kind) ==
    LET task == userTask[t]
        db_user == [id |-> uuid4("U", task.response.message_id),
                    username |-> task.request.username]
        created == [task.response EXCEPT !.status = SUCCESS,
                                         !.user_id = db_user.id]
        success_msg == ProcessedMessage(userProcessed, task.request.message_id,
                            USER_CREATE_QUEUE, "success",
                            [user_id |-> created.user_id,
                             status |-> created.status])
        error_msg == ProcessedMessage(userProcessed, task.request.message_id,
                            USER_CREATE_QUEUE, "error",
                            [error |-> task.e, status |-> task.response.status])
    IN  /\ faults < MaxFaults
        /\ faults' = faults + 1
        /\ kind \in {NULL, "PublishError"}
        /\ \/ /\ task.pc = "replay"
              /\ UNCHANGED <<users, userProcessed, history>>
              /\ HandlerExit(USER_CREATE_QUEUE, kind,
                             task.response.status # SUCCESS)
           \/ /\ task.pc = "create"
              /\ ~\E r \in users : UsersConflict(r, db_user)
              /\ ~\E r \in userProcessed : UserLedgerConflict(r, success_msg)
              /\ users' = users \cup {db_user}
              /\ userProcessed' = userProcessed \cup {success_msg}
              /\ history' = [history EXCEPT !.created = @ \cup
                                {<<created.request_id, db_user.id>>}]
              /\ HandlerExit(USER_CREATE_QUEUE, kind, FALSE)
           \/ /\ task.pc = "save_err"
              /\ userProcessed' =
                    IF \E r \in userProcessed : UserLedgerConflict(r, error_msg)
                    THEN userProcessed ELSE userProcessed \cup {error_msg}
              /\ UNCHANGED <<users, history>>
              /\ HandlerExit(USER_CREATE_QUEUE, kind, TRUE)
        /\ userTask' = [userTask EXCEPT ![t] = IdleUserTask]
        /\ UNCHANGED <<authUsers, authProcessed, createQueue, createdQueue,
                       authTask, http, deliveryCount, delivered, redeliveries,
                       clientVars>>

\* handle_user_created_message on a success response when
\* check_message_processed raises: except Exception rolls back and goes on
\* to the error record
AuthBeginFault(t, m) ==
    /\ faults < MaxFaults
    /\ faults' = faults + 1
    /\ LowestIdle(authTask, t)
    /\ m \in createdQueue
    /\ DecodeError(m) = NULL
    /\ IsSuccess(m)
    /\ createdQueue' = createdQueue \ {m}
    /\ delivered' = [delivered EXCEPT ![USER_CREATED_QUEUE] = @ \cup {m}]
    /\ authTask' = [authTask EXCEPT ![t] =
            [IdleAuthTask EXCEPT
                !.response = m,
                !.dup = \E pm \in authProcessed : pm.message_id = m.message_id,
                !.e = ErrStorage,
                !.pc = "save_err"]]
    /\ UNCHANGED <<users, userProcessed, authUsers, authProcessed, createQueue,
                   userTask, http, deliveryCount, redeliveries, history,
                   clientVars, broker>>

\* the new-message branch when the storage fails at update_user_id, at
\* save_processed_message or at session.commit(): the except branch rolls
\* back, nothing of the transaction stays and the error record follows.
\* When session.rollback() raises as well, the exception reaches the outer
\* except and the handler returns
AuthUpdateFault(t, step) ==
    LET task == authTask[t]
        flushed == IF step = "update" THEN {}
                   ELSE update_user_id(authUsers, task.response.username,
                                       task.response.user_id) \ authUsers
    IN  /\ faults < MaxFaults
        /\ faults' = faults + 1
        /\ task.pc = "update"
        /\ step \in {"update", "save", "commit", "rollback"}
        /\ authUsers' = rollback(authUsers, flushed)
        /\ IF step = "rollback"
           THEN /\ authTask' = [authTask EXCEPT ![t] = IdleAuthTask]
                /\ HandlerExit(USER_CREATED_QUEUE, "StorageError", TRUE)
           ELSE /\ authTask' = [authTask EXCEPT ![t] =
                        [task EXCEPT !.pc = "save_err", !.e = ErrStorage]]
                /\ UNCHANGED broker
        /\ UNCHANGED <<users, userProcessed, authProcessed, createQueue,
                       createdQueue, userTask, http, deliveryCount, delivered,
                       redeliveries, history, clientVars>>

\* an error record when the storage fails: the except rolls back, nothing is
\* written and the handler returns
AuthSaveErrFault(t) ==
    /\ faults < MaxFaults
    /\ faults' = faults + 1
    /\ authTask[t].pc \in {"save_err", "save_fail"}
    /\ authTask' = [authTask EXCEPT ![t] = IdleAuthTask]
    /\ HandlerExit(USER_CREATED_QUEUE, NULL, TRUE)
    /\ UNCHANGED <<users, userProcessed, authUsers, authProcessed,
                   createQueue, createdQueue, userTask, http, deliveryCount,
                   delivered, redeliveries, history, clientVars>>

InitFaults == Init

NextFaults ==
    \/ \E r \in FaultRequests, u \in Usernames : HttpPublish(r, u)
    \/ \E r \in FaultRequests : HttpCreate(r)
    \/ \E q \in {USER_CREATE_QUEUE, USER_CREATED_QUEUE} :
            \E m \in MalformedMessages : SendMalformed(q, m)
    \/ \E t \in Tasks, m \in createQueue : UserMalformed(t, m)
    \/ \E t \in Tasks, m \in createdQueue : AuthMalformed(t, m)
    \/ \E t \in Tasks, m \in WellFormed(createQueue) : UserBegin(t, m)
    \/ \E t \in Tasks, m \in WellFormed(createQueue) : UserBeginFault(t, m)
    \/ \E t \in Tasks : UserReplay(t)
    \/ \E t \in Tasks : UserCreate(t)
    \/ \E t \in Tasks, step \in {"create", "save", "commit", "rollback"} :
            UserCreateFault(t, step)
    \/ \E t \in Tasks : UserSaveErr(t)
    \/ \E t \in Tasks : UserSaveErrFault(t)
    \/ \E t \in Tasks, kind \in {NULL, "PublishError"} : UserPublishFault(t, kind)
    \/ \E t \in Tasks, m \in WellFormed(createdQueue) : AuthBegin(t, m)
    \/ \E t \in Tasks, m \in WellFormed(createdQueue) : AuthBeginFault(t, m)
    \/ \E t \in Tasks : AuthSkip(t)
    \/ \E t \in Tasks : AuthUpdate(t)
    \/ \E t \in Tasks, step \in {"update", "save", "commit", "rollback"} :
            AuthUpdateFault(t, step)
    \/ \E t \in Tasks : AuthSaveErr(t)
    \/ \E t \in Tasks : AuthSaveFail(t)
    \/ \E t \in Tasks : AuthSaveErrFault(t)
    \/ \E q \in {USER_CREATE_QUEUE, USER_CREATED_QUEUE} :
            \E m \in WellFormed(delivered[q]) : Redeliver(q, m)

SpecFaults == InitFaults /\ [][NextFaults]_vars

----------------------------------------------------------------------------
(* Properties of the saga with malformed messages and failures *)

\* C11: failure isolation. A step in which a handler consumes a malformed
\* message (undecodable JSON, or an envelope without its required fields)
\* removes that message from its topic and changes nothing else of the
\* saga: both stores, both ledgers, every handler's position and the
\* well-formed messages waiting on both topics are as they were, so the
\* well-formed messages queued behind it are processed as if it had never
\* been sent.
C11_FailureIsolation ==
    [][\A q \in {USER_CREATE_QUEUE, USER_CREATED_QUEUE} :
        \A m \in MalformedMessages :
            m \in delivered'[q] \ delivered[q] =>
                /\ m \notin (IF q = USER_CREATE_QUEUE THEN createQueue'
                              ELSE createdQueue')
                /\ WellFormed(createQueue') = WellFormed(createQueue)
                /\ WellFormed(createdQueue') = WellFormed(createdQueue)
                /\ UNCHANGED <<users, userProcessed, authUsers, authProcessed,
                               userTask, authTask, deliveryCount>>]_vars

\* a malformed message was dropped from user.create while a request was
\* waiting behind it, and that request was then delivered once and answered
\* with a success
C11_Witness ==
    \E d \in history.dropped :
        /\ d.queue = USER_CREATE_QUEUE
        /\ \E c \in history.completions :
            /\ c.request \in d.waiting
            /\ c.c.status = SUCCESS
            /\ deliveryCount[c.request] = 1

\* C15: canonical id only on saga success. In every reachable state, an
\* identity record with a non-null user_id has a user with that id and the
\* same username in the provisioning store, whose creation is recorded in
\* the provisioning ledger with status success; and no identity record
\* carries the user_id of a completion whose status is not success.
C15_CanonicalIdOnlyOnSuccess ==
    \A a \in authUsers :
        a.user_id # NULL =>
            /\ \E u \in users : u.id = a.user_id /\ u.username = a.username
            /\ \E pm \in userProcessed :
                /\ pm.status = "success"
                /\ pm.source_queue = USER_CREATE_QUEUE
                /\ pm.result_data.user_id = a.user_id
            /\ \A c \in history.completions :
                c.c.status # SUCCESS => c.c.user_id # a.user_id

\* an identity record got its user_id although a failed completion that
\* still carried a user_id had been delivered to the identity handler
C15_Witness ==
    /\ \E a \in authUsers : a.user_id # NULL
    /\ \E c \in history.completions :
        /\ c.c.status # SUCCESS
        /\ c.c.user_id # NULL
        /\ c.c \in delivered[USER_CREATED_QUEUE]

DirectIds == {uuid4("U", "d" \o ToString(k)) : k \in 1..MaxDirect}

\* the users created by handle_user_create_message
SagaUsers == {u \in users : u.id \notin DirectIds}

\* C17: atomic effect and ledger in the provisioning store. In every
\* committed state, a user created by the saga exists if and only if a
\* ledger entry of user.create with status success and that user's id
\* exists, also after the ledger write or the commit failed when the user
\* row was already flushed.
C17_AtomicEffectAndLedger ==
    /\ \A u \in SagaUsers :
        \E pm \in userProcessed :
            /\ pm.source_queue = USER_CREATE_QUEUE
            /\ pm.status = "success"
            /\ pm.result_data.user_id = u.id
    /\ \A pm \in userProcessed :
        pm.status = "success" =>
            \E u \in SagaUsers : u.id = pm.result_data.user_id

\* the transaction of a creation failed after the user row was flushed
\* and was rolled back: the handler holds the id of a user that is not in
\* the store
C17_Witness ==
    \E t \in Tasks :
        /\ userTask[t].pc = "save_err"
        /\ userTask[t].e = ErrStorage
        /\ userTask[t].response.user_id # NULL
        /\ \A u \in users : u.id # userTask[t].response.user_id

\* C18: no poison message crashes the consume loop. Whatever the message
\* holds and whichever step of the storage or of the publisher fails, no
\* exception escapes a handler, every handler that is running can take its
\* next step, and a handler that returned is free for the next message.
C18_NoPoisonMessage ==
    /\ broker.escaped = {}
    /\ \A t \in Tasks :
        /\ userTask[t].pc # "idle" =>
                ENABLED (UserReplay(t) \/ UserCreate(t) \/ UserSaveErr(t))
        /\ authTask[t].pc # "idle" =>
                ENABLED (AuthSkip(t) \/ AuthUpdate(t) \/ AuthSaveErr(t)
                            \/ AuthSaveFail(t))

\* after a malformed message and as many failures as a run has, a request
\* was still dispatched to both handlers and the saga completed
C18_Witness ==
    /\ history.dropped # {}
    /\ faults = MaxFaults
    /\ \E a \in authUsers : a.user_id # NULL
    /\ \A t \in Tasks : userTask[t].pc = "idle" /\ authTask[t].pc = "idle"

----------------------------------------------------------------------------
(* Properties of the recorded failures and of the identity handler *)

\* C21 as stated: once the ledger of user-service holds an error entry for
\* a request, every completion published for that request, by the delivery
\* that failed and by every later delivery, carries the recorded status and
\* an error message
C21_Original ==
    \A pm \in userProcessed :
        pm.status = "error" =>
            \A c \in history.completions :
                c.request = pm.message_id =>
                    /\ c.c.status = pm.result_data.status
                    /\ c.c.error_message # NULL

\* C22: a non-success completion leaves the record alone. Every step that
\* handle_user_created_message takes on a completion whose status is not
\* success or whose user_id is absent leaves the identity records as they
\* are (none created, modified or deleted), publishes nothing to either
\* topic, and puts nothing back for a retry.
C22_NonSuccessLeavesRecord ==
    [][\A t \in Tasks :
        LET response == IF authTask[t].pc = "idle" THEN authTask'[t].response
                        ELSE authTask[t].response
        IN  (/\ authTask'[t] # authTask[t]
             /\ response.status # SUCCESS \/ response.user_id = NULL)
            => /\ authUsers' = authUsers
               /\ createQueue' = createQueue
               /\ createdQueue' \subseteq createdQueue
               /\ redeliveries' = redeliveries]_vars

\* a failed completion was handled to its end (its error entry is in the
\* ledger of auth-service, no handler is running) and the record of its
\* username still has no user_id
C22_Witness ==
    /\ \A t \in Tasks : authTask[t].pc = "idle"
    /\ \E c \in history.completions :
        /\ c.c.status # SUCCESS
        /\ \E pm \in authProcessed :
            pm.message_id = c.c.message_id /\ pm.status = "error"
        /\ \E a \in authUsers :
            a.username = c.c.username /\ a.user_id = NULL

\* C23: a malformed request is dropped without effect. A step in which
\* handle_user_create_message consumes a payload that does not decode into
\* a request creates no user, writes no ledger entry, publishes no
\* completion, and the payload is acknowledged and gone from user.create,
\* so it is not retried.
C23_MalformedRequestDropped ==
    [][\A m \in MalformedMessages :
        m \in delivered'[USER_CREATE_QUEUE] \ delivered[USER_CREATE_QUEUE] =>
            /\ users' = users
            /\ userProcessed' = userProcessed
            /\ createdQueue' = createdQueue
            /\ history'.completions = history.completions
            /\ m \notin createQueue'
            /\ <<USER_CREATE_QUEUE, "ack">> \in broker'.settled
            /\ redeliveries' = redeliveries]_vars

\* a malformed payload was delivered to handle_user_create_message and is
\* gone, with nothing created, recorded or published
C23_Witness ==
    /\ \E d \in history.dropped : d.queue = USER_CREATE_QUEUE
    /\ \E m \in MalformedMessages :
        m \in delivered[USER_CREATE_QUEUE] /\ m \notin createQueue
    /\ users = {} /\ userProcessed = {} /\ history.completions = {}

\* C24: atomic completion update in the identity store. The user_id of a
\* record changes only in a step that also commits the success entry of
\* that completion; a step in which the update transaction fails leaves
\* records and ledger as they were, and the step after it adds at most an
\* error entry; and in every committed state a success entry of
\* user.created names a record that has the completion's user_id.
C24_AtomicCompletionUpdate ==
    [][/\ \A pm \in authProcessed' :
            pm.status = "success" =>
                \E a \in authUsers' :
                    /\ a.username = pm.result_data.username
                    /\ a.user_id = pm.result_data.user_id
       /\ \A a \in authUsers' \ authUsers :
            a.user_id # NULL =>
                \E pm \in authProcessed' \ authProcessed :
                    /\ pm.status = "success"
                    /\ pm.result_data.username = a.username
                    /\ pm.result_data.user_id = a.user_id
       /\ \A t \in Tasks :
            /\ (authTask[t].pc = "update" /\ faults' # faults) =>
                    authUsers' = authUsers /\ authProcessed' = authProcessed
            /\ (authTask[t].pc = "save_err" /\ authTask'[t] # authTask[t]) =>
                    /\ authUsers' = authUsers
                    /\ \A pm \in authProcessed' \ authProcessed :
                        /\ pm.status = "error"
                        /\ pm.message_id = authTask[t].response.message_id]_vars

\* an update transaction failed on the storage and was rolled back: its
\* only trace is the error entry, and the record still has no user_id
C24_Witness ==
    \E pm \in authProcessed :
        /\ pm.status = "error"
        /\ Get(pm.result_data, "error") = ErrStorage
        /\ \E a \in authUsers :
            a.username = pm.result_data.username /\ a.user_id = NULL

\* C25 as stated: whenever handle_user_created_message is on its
\* already-processed branch for a success completion, the identity record
\* of the completion's username has the completion's user_id
C25_Original ==
    \A t \in Tasks :
        authTask[t].pc = "skip" =>
            \E a \in authUsers :
                /\ a.username = authTask[t].response.username
                /\ a.user_id = authTask[t].response.user_id

\* C26 as stated: at most one invocation of handle_user_create_message and
\* at most one of handle_user_created_message is running at any time
C26_Original ==
    /\ Cardinality({t \in Tasks : userTask[t].pc # "idle"}) <= 1
    /\ Cardinality({t \in Tasks : authTask[t].pc # "idle"}) <= 1

----------------------------------------------------------------------------
(* Properties of the client *)

\* C27 as stated: connect() never makes more attempts than the configured
\* RABBITMQ_RETRY_COUNT, and when it fails because every attempt failed it
\* has made exactly that many
C27_Original ==
    /\ conn.failures <= app.retry_count
    /\ (conn.pc = "raised" /\ conn.failures = conn.attempt + 1) =>
            conn.failures = app.retry_count

----------------------------------------------------------------------------
(* RabbitMQClient: register_consumer, start_consuming and stop_consuming   *)
(* called in any order on a connected client                               *)

Queues == {USER_CREATE_QUEUE, USER_CREATED_QUEUE}
Callbacks == {HANDLE_USER_CREATED, "handler_2"}

\* the fields connect() sets when it returns
Connected(c) ==
    [c EXCEPT !.connection = TRUE, !.channel = TRUE, !.exchange = TRUE,
              !.connected = TRUE]

\* register_consumer(queue_name, callback) on a connected client
RegisterConsumerCall(queue_name, callback) ==
    /\ client.connected
    /\ client' = [client EXCEPT !.consumers =
                        register_consumer(@, queue_name, callback)]
    /\ UNCHANGED <<conn, app, brokerUp, sagaVars, faultVars>>

\* start_consuming() on a connected client: nothing when the task is
\* running, else asyncio.create_task(_consume())
StartConsumingCall ==
    /\ client.connected
    /\ history.starts < MaxStarts
    /\ history' = [history EXCEPT !.starts = @ + 1]
    /\ client' = IF TaskRunning(client) THEN client
                 ELSE [client EXCEPT !.consume_task = "created"]
    /\ UNCHANGED <<users, userProcessed, authUsers, authProcessed,
                   createQueue, createdQueue, userTask, authTask, http,
                   deliveryCount, delivered, redeliveries, conn, app,
                   brokerUp, faultVars>>

\* the created task runs _consume() up to its first sleep
ConsumeTaskRun ==
    /\ client.consume_task = "created"
    /\ client' = Subscribe(client)
    /\ UNCHANGED <<conn, app, brokerUp, sagaVars, faultVars>>

\* stop_consuming() while the task is not done
StopConsumingCall ==
    /\ TaskRunning(client)
    /\ client' = stop_consuming(client)
    /\ UNCHANGED <<conn, app, brokerUp, sagaVars, faultVars>>

\* the consumers of one named queue compete: the broker hands a message to
\* one of them
Recipients(subscriptions) == {{sub} : sub \in subscriptions}

\* the broker delivers a message of user.created and the channel starts the
\* callback of the consumer that got it
Dispatch(m) ==
    /\ m \in createdQueue
    /\ \E R \in Recipients({sub \in client.subscriptions :
                                sub.queue = USER_CREATED_QUEUE}) :
        history' = [history EXCEPT !.invocations = @ \cup
                        {[message |-> m.message_id, callback |-> sub.callback,
                          tag |-> sub.tag] : sub \in R}]
    /\ createdQueue' = createdQueue \ {m}
    /\ delivered' = [delivered EXCEPT ![USER_CREATED_QUEUE] = @ \cup {m}]
    /\ UNCHANGED <<users, userProcessed, authUsers, authProcessed,
                   createQueue, userTask, authTask, http, deliveryCount,
                   redeliveries, clientVars, faultVars>>

\* a client that connect() has connected, in a serving process
InitConsumer ==
    /\ InitSaga
    /\ client = Connected([connection |-> FALSE, channel |-> FALSE,
                           exchange |-> FALSE, consumers |-> {},
                           consume_task |-> "none", subscriptions |-> {},
                           connected |-> FALSE])
    /\ conn = [pc |-> "none", attempt |-> 0, failures |-> 0, slept |-> <<>>,
               caller |-> "none"]
    /\ app = [phase |-> "serving", startup |-> "ok", published |-> "none",
              request |-> NULL, username |-> NULL, response |-> "none",
              fresh |-> FALSE, retry_count |-> RABBITMQ_RETRY_COUNT]
    /\ brokerUp = TRUE

NextConsumer ==
    \/ \E q \in Queues, cb \in Callbacks : RegisterConsumerCall(q, cb)
    \/ StartConsumingCall
    \/ ConsumeTaskRun
    \/ StopConsumingCall
    \/ \E m \in ClientCompletions : Arrive(m)
    \/ \E m \in createdQueue : Dispatch(m)

SpecConsumer == InitConsumer /\ [][NextConsumer]_vars

\* C28: one handler per topic, one dispatch per message. In every sequence
\* of register_consumer, start_consuming and stop_consuming calls the
\* registry holds at most one callback per queue and a registration
\* replaces the callback the queue had; a start_consuming call made while
\* the task is not done changes nothing (no second task, no further
\* consumer); and every delivered message started exactly one handler
\* invocation.
C28_OneHandlerOneDispatch ==
    [][/\ \A q \in Queues :
            Cardinality({p \in client'.consumers : p[1] = q}) <= 1
       /\ client'.consumers # client.consumers =>
            \E q \in Queues, cb \in Callbacks :
                client'.consumers =
                    {p \in client.consumers : p[1] # q} \cup {<<q, cb>>}
       /\ (history'.starts # history.starts /\ client.consume_task # "none")
            => client' = client
       /\ \A m \in delivered'[USER_CREATED_QUEUE] :
            Cardinality({i \in history'.invocations :
                            i.message = m.message_id}) = 1]_vars

\* after a stop and a second start the queue has two consumers, a start
\* was called while the task was running, and both messages were each
\* dispatched once
C28_Witness ==
    /\ history.starts = MaxStarts
    /\ client.consume_task = "running"
    /\ \E s1, s2 \in client.subscriptions :
        s1.queue = USER_CREATED_QUEUE /\ s2.queue = USER_CREATED_QUEUE
        /\ s1.tag # s2.tag
    /\ delivered[USER_CREATED_QUEUE] = ClientCompletions
    /\ Cardinality(history.invocations) = 2

----------------------------------------------------------------------------
(* Properties of the ledgers *)

\* the rows of a ledger that record the same message of the same queue
SameKey(table, pm) ==
    {x \in table : x.message_id = pm.message_id
                    /\ x.source_queue = pm.source_queue}

\* C29: ledger entries are write-once. In both services no step modifies or
\* deletes a committed ledger entry, a message of a queue never has a
\* second entry, and a request recorded with status error has no success
\* entry and no user created for it, then or later.
C29_LedgerWriteOnce ==
    [][/\ userProcessed \subseteq userProcessed'
       /\ authProcessed \subseteq authProcessed'
       /\ \A pm \in userProcessed' : SameKey(userProcessed', pm) = {pm}
       /\ \A pm \in authProcessed' : SameKey(authProcessed', pm) = {pm}
       /\ \A pm \in userProcessed' :
            pm.status = "error" =>
                \A c \in history'.created : c[1] # pm.message_id]_vars

\* a request was recorded with status error, delivered again and answered
\* from its entry, and a completion was recorded by the identity handler
\* and delivered again
C29_Witness ==
    /\ \E pm \in userProcessed :
        /\ pm.status = "error"
        /\ deliveryCount[pm.message_id] >= 2
        /\ Cardinality({c \in history.completions :
                            c.request = pm.message_id}) >= 2
    /\ authProcessed # {}
    /\ \A t \in Tasks : userTask[t].pc = "idle" /\ authTask[t].pc = "idle"

\* connection, channel and exchange are all set
AllSet(c) == c.connection /\ c.channel /\ c.exchange

\* none of connection, channel and exchange is set
NoneSet(c) == ~c.connection /\ ~c.channel /\ ~c.exchange

\* C30: client state consistency. Outside a running connect() or close(),
\* _connected is true exactly when connection, channel and exchange are
\* all set; a connect() that raised, after its last attempt or during the
\* topology declaration, has left all three unset and _connected false; a
\* connect() called on a connected client returns at once and changes
\* nothing; and when close() has returned the three are unset and
\* _connected is false.
C30_ClientStateConsistency ==
    [][/\ (conn'.pc \notin {"try", "sleep", "topology"}
           /\ app'.phase # "closing") =>
                /\ client'.connected <=> AllSet(client')
                /\ client'.connected \/ NoneSet(client')
       /\ conn'.pc = "raised" =>
                NoneSet(client') /\ ~client'.connected
       /\ (conn.pc = "none" /\ conn'.pc # "none" /\ client.connected) =>
                conn'.pc = "returned" /\ client' = client
       /\ app'.phase = "stopped" =>
                NoneSet(client') /\ ~client'.connected]_vars

\* a connect() failed during the topology declaration, a later connect()
\* connected the client, and close() has returned it to the unconnected
\* state
C30_Witness ==
    /\ app.startup = "raised"
    /\ app.published = "true"
    /\ app.phase = "stopped"
    /\ NoneSet(client) /\ ~client.connected

====
